---- MODULE Spec2Model ----
(***************************************************************************)
(* GF(p) arithmetic of hw2/finite_field_homework.py: FiniteFieldElement,   *)
(* the additive and multiplicative groups, FiniteField, the operator       *)
(* wrapper GFNumber and the randomized check_distributivity.               *)
(*                                                                         *)
(* Three specifications share the variables:                               *)
(*   SpecGroup  calls of the two groups' methods on elements,              *)
(*   Spec       GFNumber objects and their four operators,                 *)
(*   SpecCheck  the trials of check_distributivity (SpecCheckFair adds     *)
(*              the fairness of a sequential loop).                        *)
(***************************************************************************)
EXTENDS Integers, Sequences, FiniteSets, TLC

VARIABLES
    field,      \* SpecGroup/SpecCheck: the FiniteField under test
    ea, eb,     \* SpecGroup: two FiniteFieldElement operands
    out,        \* SpecGroup: the last group-method call and what it returned
    fields,     \* Spec: the FiniteField objects, by reference
    heap,       \* Spec: the GFNumber objects, by the name bound to them
    origin,     \* Spec: history, the operator call that returned each GFNumber
    last,       \* Spec: the last operator call, its outcome and the elements it built
    pc,         \* SpecCheck: position in check_distributivity
    trials,     \* SpecCheck: the trials argument
    done,       \* SpecCheck: loop iterations completed
    trial       \* SpecCheck: the samples, calls and results of the last iteration

vars == <<field, ea, eb, out, fields, heap, origin, last, pc, trials, done, trial>>
groupVars == <<field, ea, eb, out>>
numVars == <<fields, heap, origin, last>>
checkVars == <<pc, trials, done, trial>>

---------------------------------------------------------------------------
\* Bounds of the model.

\* Moduli are the primes up to MaxPrime: 2, 3, 5 and 7.
MaxPrime == 10
\* Raw constructor arguments range over -MaxRaw..MaxRaw.
MaxRaw == 4
\* check_distributivity is called with trials in 0..MaxTrials.
MaxTrials == 3

IsPrime(n) == n > 1 /\ \A d \in 2..(n - 1) : n % d # 0
Primes == {n \in 2..MaxPrime : IsPrime(n)}
RawValues == (0 - MaxRaw)..MaxRaw

---------------------------------------------------------------------------
\* FiniteFieldElement

\* A remainder that keeps the sign of the dividend instead of Python's floor
\* modulo.
TruncatingElement(value, prime) ==
    [prime |-> prime,
     value |-> IF value >= 0 THEN value % prime ELSE 0 - ((0 - value) % prime),
     raw |-> value]

\* FiniteFieldElement.__init__: self.prime = prime; self.value = value % prime.
\* Python's % with a positive modulus is the floor modulo, as TLA+'s.
\* raw is a history field: the value argument the element was built from.
\* It is no attribute of the Python object and takes no part in __eq__.
FiniteFieldElement(value, prime) ==
    [prime |-> prime, value |-> value % prime, raw |-> value]

\* FiniteFieldElement.__eq__ on two elements: same value and same prime.
Element_eq(self, other) ==
    self.value = other.value /\ self.prime = other.prime

\* The exception object a raise leaves in place of a return value.
ZeroDivisionError == [exc |-> "ZeroDivisionError"]
Raised(r) == "exc" \in DOMAIN r

---------------------------------------------------------------------------
\* FiniteFieldAddGroup

FiniteFieldAddGroup(prime) ==
    [prime |-> prime, identity |-> FiniteFieldElement(0, prime)]

AddGroup_operation(self, a, b) ==
    FiniteFieldElement(a.value + b.value, self.prime)

\* The negation forgotten.
AddGroup_inverse_NoNegation(self, a) ==
    FiniteFieldElement(a.value, self.prime)

AddGroup_inverse(self, a) ==
    FiniteFieldElement(0 - a.value, self.prime)

AddGroup_include(self, element) ==
    element.prime = self.prime

\* [FiniteFieldElement(i, prime) for i in range(prime)]
AddGroup_get_all_elements(self) ==
    [k \in 1..self.prime |-> FiniteFieldElement(k - 1, self.prime)]

---------------------------------------------------------------------------
\* FiniteFieldMulGroup

FiniteFieldMulGroup(prime) ==
    [prime |-> prime, identity |-> FiniteFieldElement(1, prime)]

\* The product reduced modulo the group's order p - 1 instead of the modulus.
MulGroup_operation_ModOrder(self, a, b) ==
    FiniteFieldElement(a.value * b.value, self.prime - 1)

\* The additive group's operation pasted into the multiplicative group.
MulGroup_operation_Adds(self, a, b) ==
    FiniteFieldElement(a.value + b.value, self.prime)

MulGroup_operation(self, a, b) ==
    FiniteFieldElement(a.value * b.value, self.prime)

\* Python's three-argument pow for exp >= 0: square and multiply, reduced
\* modulo mod at every step.
RECURSIVE pow(_, _, _)
pow(base, exp, mod) ==
    IF exp = 0 THEN 1 % mod
    ELSE IF exp % 2 = 1 THEN (base * pow(base, exp - 1, mod)) % mod
    ELSE LET h == pow(base, exp \div 2, mod) IN (h * h) % mod

\* The zero check forgotten: pow(0, p - 2, p) is returned.
MulGroup_inverse_NoZeroCheck(self, a) ==
    FiniteFieldElement(pow(a.value, self.prime - 2, self.prime), self.prime)

\* The exponent off by one: a^(p-1) instead of a^(p-2).
MulGroup_inverse_WrongExponent(self, a) ==
    IF a.value = 0 THEN ZeroDivisionError
    ELSE FiniteFieldElement(pow(a.value, self.prime - 1, self.prime), self.prime)

MulGroup_inverse(self, a) ==
    IF a.value = 0 THEN ZeroDivisionError
    ELSE LET inv == pow(a.value, self.prime - 2, self.prime)
         IN  FiniteFieldElement(inv, self.prime)

MulGroup_include(self, element) ==
    element.prime = self.prime /\ element.value # 0

\* range(self.prime) instead of range(1, self.prime): zero is sampled too.
MulGroup_get_all_elements_FromZero(self) ==
    [k \in 1..self.prime |-> FiniteFieldElement(k - 1, self.prime)]

\* [FiniteFieldElement(i, prime) for i in range(1, prime)]
MulGroup_get_all_elements(self) ==
    [k \in 1..(self.prime - 1) |-> FiniteFieldElement(k, self.prime)]

---------------------------------------------------------------------------
\* FiniteField

FiniteField(prime) ==
    [prime |-> prime,
     add_group |-> FiniteFieldAddGroup(prime),
     mul_group |-> FiniteFieldMulGroup(prime)]

FiniteField_element(self, value) ==
    FiniteFieldElement(value, self.prime)

---------------------------------------------------------------------------
\* SpecGroup: the methods of the two groups of one field, called on two
\* operand elements.  Operands come from the field's factory or are built
\* directly with any prime, so include() can also answer False.

NoCall == [op |-> "none"]

InitGroup ==
    /\ \E p \in Primes : field = FiniteField(p)
    /\ ea = field.add_group.identity
    /\ eb = field.mul_group.identity
    /\ out = NoCall
    /\ fields = <<>> /\ heap = <<>> /\ origin = <<>> /\ last = NoCall
    /\ pc = "idle" /\ trials = 0 /\ done = 0 /\ trial = NoCall

\* a = field.element(v) or b = field.element(v)
Element ==
    \E v \in RawValues :
        /\ \/ ea' = FiniteField_element(field, v) /\ eb' = eb
           \/ eb' = FiniteField_element(field, v) /\ ea' = ea
        /\ out' = NoCall
        /\ UNCHANGED <<field, numVars, checkVars>>

\* a = FiniteFieldElement(v, q) for a prime q of the caller's choice
ForeignElement ==
    \E v \in RawValues, q \in Primes :
        /\ \/ ea' = FiniteFieldElement(v, q) /\ eb' = eb
           \/ eb' = FiniteFieldElement(v, q) /\ ea' = ea
        /\ out' = NoCall
        /\ UNCHANGED <<field, numVars, checkVars>>

Call(op, grp, ret) ==
    /\ out' = [op |-> op, group |-> grp, a |-> ea, b |-> eb, ret |-> ret]
    /\ UNCHANGED <<field, ea, eb, numVars, checkVars>>

AddOperation == Call("operation", "add", AddGroup_operation(field.add_group, ea, eb))
AddInverse == Call("inverse", "add", AddGroup_inverse(field.add_group, ea))
AddInclude == Call("include", "add", AddGroup_include(field.add_group, ea))
MulOperation == Call("operation", "mul", MulGroup_operation(field.mul_group, ea, eb))
MulInverse == Call("inverse", "mul", MulGroup_inverse(field.mul_group, ea))
MulInclude == Call("include", "mul", MulGroup_include(field.mul_group, ea))

NextGroup ==
    \/ Element
    \/ ForeignElement
    \/ AddOperation
    \/ AddInverse
    \/ AddInclude
    \/ MulOperation
    \/ MulInverse
    \/ MulInclude

SpecGroup == InitGroup /\ [][NextGroup]_vars

---------------------------------------------------------------------------
\* GFNumber.  An operator works on the store st = [fields, heap] of the
\* objects it can reach and hands back the store as it leaves it, the value
\* it returns (or the exception it raises) and, as history, the elements it
\* built on the way.

\* GFNumber.__init__: self.field = field; self.elem = field.element(value)
GFNumber(st, fref, value) ==
    [field |-> fref, elem |-> FiniteField_element(st.fields[fref], value)]

Return(st, ret, built) ==
    [fields |-> st.fields, heap |-> st.heap, ret |-> ret, built |-> built]

\* An in-place variant: self.elem is overwritten and self returned.
GFNumber_add_InPlace(st, self, other) ==
    LET me == st.heap[self]
        r == AddGroup_operation(st.fields[me.field].add_group, me.elem, st.heap[other].elem)
        new == GFNumber(st, me.field, r.value)
    IN  [fields |-> st.fields,
         heap |-> [st.heap EXCEPT ![self] = new],
         ret |-> new,
         built |-> <<r, new.elem>>]

GFNumber_add(st, self, other) ==
    LET me == st.heap[self]
        r == AddGroup_operation(st.fields[me.field].add_group, me.elem, st.heap[other].elem)
        new == GFNumber(st, me.field, r.value)
    IN  Return(st, new, <<r, new.elem>>)

GFNumber_sub(st, self, other) ==
    LET me == st.heap[self]
        inv == AddGroup_inverse(st.fields[me.field].add_group, st.heap[other].elem)
        r == AddGroup_operation(st.fields[me.field].add_group, me.elem, inv)
        new == GFNumber(st, me.field, r.value)
    IN  Return(st, new, <<inv, r, new.elem>>)

GFNumber_mul(st, self, other) ==
    LET me == st.heap[self]
        r == MulGroup_operation(st.fields[me.field].mul_group, me.elem, st.heap[other].elem)
        new == GFNumber(st, me.field, r.value)
    IN  Return(st, new, <<r, new.elem>>)

\* The inverse forgotten: the quotient is computed as the product.
GFNumber_truediv_NoInverse(st, self, other) ==
    LET me == st.heap[self]
        r == MulGroup_operation(st.fields[me.field].mul_group, me.elem, st.heap[other].elem)
        new == GFNumber(st, me.field, r.value)
    IN  IF st.heap[other].elem.value = 0 THEN Return(st, ZeroDivisionError, <<>>)
        ELSE Return(st, new, <<r, new.elem>>)

\* The exception of mul_group.inverse propagates: nothing is built or returned.
GFNumber_truediv(st, self, other) ==
    LET me == st.heap[self]
        inv == MulGroup_inverse(st.fields[me.field].mul_group, st.heap[other].elem)
    IN  IF Raised(inv) THEN Return(st, inv, <<>>)
        ELSE LET r == MulGroup_operation(st.fields[me.field].mul_group, me.elem, inv)
                 new == GFNumber(st, me.field, r.value)
             IN  Return(st, new, <<inv, r, new.elem>>)

---------------------------------------------------------------------------
\* Spec: two FiniteField objects of one prime, F and G; GFNumbers x and y
\* constructed on either, and an expression of up to two operator calls:
\* q = a <op> b on any two of the objects that exist, then r = q <op> c with
\* any object c (x / y * y is evaluated as (x / y) * y).

FieldRefs == {"F", "G"}
Operands == {"x", "y"}
Results == <<"q", "r">>

Store == [fields |-> fields, heap |-> heap]

Init ==
    /\ \E p \in Primes : fields = [f \in FieldRefs |-> FiniteField(p)]
    /\ heap = <<>>
    /\ origin = <<>>
    /\ last = NoCall
    /\ field = NoCall /\ ea = NoCall /\ eb = NoCall /\ out = NoCall
    /\ pc = "idle" /\ trials = 0 /\ done = 0 /\ trial = NoCall

\* x = GFNumber(F, v)
Construct ==
    \E n \in Operands \ DOMAIN heap, f \in FieldRefs, v \in RawValues :
        LET new == GFNumber(Store, f, v) IN
        /\ heap' = heap @@ (n :> new)
        /\ origin' = origin @@ (n :> [op |-> "init"])
        /\ last' = [op |-> "init", ret |-> n, raised |-> FALSE, built |-> <<new.elem>>]
        /\ UNCHANGED <<fields, groupVars, checkVars>>

\* The name the next operator result is bound to.
FreeResults == {k \in DOMAIN Results : Results[k] \notin DOMAIN heap}
NextResult == Results[CHOOSE k \in FreeResults : \A j \in FreeResults : k <= j]

\* The objects the next operator call can have on its left: any object, or
\* the first result when the expression continues.
LeftOperands == IF Results[1] \in DOMAIN heap THEN {Results[1]} ELSE DOMAIN heap

\* q = self <op> other, with res what the operator handed back.
Apply(op, self, other, res) ==
    /\ fields' = res.fields
    /\ IF Raised(res.ret)
       THEN /\ heap' = res.heap
            /\ origin' = origin
            /\ last' = [op |-> op, self |-> self, other |-> other, ret |-> "",
                        raised |-> TRUE, error |-> res.ret.exc, built |-> res.built]
       ELSE /\ heap' = res.heap @@ (NextResult :> res.ret)
            /\ origin' = origin @@ (NextResult :> [op |-> op, self |-> self, other |-> other])
            /\ last' = [op |-> op, self |-> self, other |-> other, ret |-> NextResult,
                        raised |-> FALSE, built |-> res.built]
    /\ UNCHANGED <<groupVars, checkVars>>

Add ==
    /\ FreeResults # {}
    /\ \E self \in LeftOperands, other \in DOMAIN heap :
           Apply("add", self, other, GFNumber_add(Store, self, other))

Sub ==
    /\ FreeResults # {}
    /\ \E self \in LeftOperands, other \in DOMAIN heap :
           Apply("sub", self, other, GFNumber_sub(Store, self, other))

Mul ==
    /\ FreeResults # {}
    /\ \E self \in LeftOperands, other \in DOMAIN heap :
           Apply("mul", self, other, GFNumber_mul(Store, self, other))

TrueDiv ==
    /\ FreeResults # {}
    /\ \E self \in LeftOperands, other \in DOMAIN heap :
           Apply("truediv", self, other, GFNumber_truediv(Store, self, other))

Next ==
    \/ Construct
    \/ Add
    \/ Sub
    \/ Mul
    \/ TrueDiv

Spec == Init /\ [][Next]_vars

---------------------------------------------------------------------------
\* check_distributivity and check_field

\* Group.random_generate: random.choice(self._get_all_elements()), as the set
\* of elements it can return.
Group_random_generate(elements) ==
    {elements[k] : k \in DOMAIN elements}

\* trials=50, the default check_field relies on.
DefaultTrials == 50

\* One iteration of the loop body for the sampled a, b, c: left, right, the
\* outcome of the assert and, as history, the five operation calls in the
\* order Python evaluates them.
LoopBody(f, a, b, c) ==
    LET bc == AddGroup_operation(f.add_group, b, c)
        left == MulGroup_operation(f.mul_group, a, bc)
        ab == MulGroup_operation(f.mul_group, a, b)
        ac == MulGroup_operation(f.mul_group, a, c)
        right == AddGroup_operation(f.add_group, ab, ac)
    IN  [a |-> a, b |-> b, c |-> c,
         left |-> left, right |-> right,
         passed |-> Element_eq(left, right),
         calls |-> <<[group |-> "add", a |-> b, b |-> c],
                     [group |-> "mul", a |-> a, b |-> bc],
                     [group |-> "mul", a |-> a, b |-> b],
                     [group |-> "mul", a |-> a, b |-> c],
                     [group |-> "add", a |-> ab, b |-> ac]>>]

InitCheck ==
    /\ \E p \in Primes : field = FiniteField(p)
    /\ pc = "idle" /\ trials = 0 /\ done = 0 /\ trial = NoCall
    /\ ea = NoCall /\ eb = NoCall /\ out = NoCall
    /\ fields = <<>> /\ heap = <<>> /\ origin = <<>> /\ last = NoCall

\* check_field(field): check_distributivity(field) with the default trials
CheckField ==
    /\ pc = "idle"
    /\ pc' = "loop" /\ trials' = DefaultTrials /\ done' = 0
    /\ UNCHANGED <<trial, field, ea, eb, out, numVars>>

\* check_distributivity(field, t)
CheckDistributivity ==
    /\ pc = "idle"
    /\ \E t \in 0..MaxTrials : trials' = t
    /\ pc' = "loop" /\ done' = 0
    /\ UNCHANGED <<trial, field, ea, eb, out, numVars>>

\* for _ in range(trials): the next iteration starts with
\* a = field.mul_group.random_generate(), for every element random.choice
\* can return.
SampleA ==
    /\ pc = "loop" /\ done < trials
    /\ \E a \in Group_random_generate(MulGroup_get_all_elements(field.mul_group)) :
           trial' = [a |-> a]
    /\ pc' = "sample_b"
    /\ UNCHANGED <<trials, done, field, ea, eb, out, numVars>>

\* b = field.add_group.random_generate()
SampleB ==
    /\ pc = "sample_b"
    /\ \E b \in Group_random_generate(AddGroup_get_all_elements(field.add_group)) :
           trial' = [a |-> trial.a, b |-> b]
    /\ pc' = "sample_c"
    /\ UNCHANGED <<trials, done, field, ea, eb, out, numVars>>

\* c = field.add_group.random_generate()
SampleC ==
    /\ pc = "sample_c"
    /\ \E c \in Group_random_generate(AddGroup_get_all_elements(field.add_group)) :
           trial' = [a |-> trial.a, b |-> trial.b, c |-> c]
    /\ pc' = "assert"
    /\ UNCHANGED <<trials, done, field, ea, eb, out, numVars>>

\* left = ...; right = ...; assert left == right.  A failed assert ends the
\* call with AssertionError.
AssertEqual ==
    /\ pc = "assert"
    /\ trial' = LoopBody(field, trial.a, trial.b, trial.c)
    /\ IF trial'.passed
       THEN pc' = "loop" /\ done' = done + 1
       ELSE pc' = "AssertionError" /\ done' = done
    /\ UNCHANGED <<trials, field, ea, eb, out, numVars>>

\* range(trials) is exhausted: the function returns.
LoopExit ==
    /\ pc = "loop" /\ done = trials
    /\ pc' = "returned"
    /\ UNCHANGED <<trials, done, trial, field, ea, eb, out, numVars>>

NextCheck ==
    \/ CheckField
    \/ CheckDistributivity
    \/ SampleA
    \/ SampleB
    \/ SampleC
    \/ AssertEqual
    \/ LoopExit

SpecCheck == InitCheck /\ [][NextCheck]_vars

\* The loop is sequential code: a step that can be taken is taken.
SpecCheckFair == SpecCheck /\ WF_vars(NextCheck)

---------------------------------------------------------------------------
\* Arithmetic the properties are stated in, independent of the code's own
\* reduction and exponentiation.

Abs(n) == IF n < 0 THEN 0 - n ELSE n

\* m divides n (m > 0).
Divides(m, n) == Abs(n) % m = 0

\* value is the residue of raw modulo prime.
IsResidue(value, raw, prime) ==
    value \in 0..(prime - 1) /\ Divides(prime, raw - value)

\* base^exp by repeated multiplication, unreduced.
RECURSIVE Power(_, _)
Power(base, exp) == IF exp = 0 THEN 1 ELSE base * Power(base, exp - 1)

IsCall(op, group) == out.op = op /\ out.group = group

---------------------------------------------------------------------------
\* Properties of the groups (SpecGroup)

\* C2: for every prime p and every member a of the multiplicative group
\* (value 1..p-1), inverse(a) does not fail, has the value a^(p-2) mod p, and
\* operation(a, inverse(a)) == identity, the element of value 1; the inverse
\* of the identity is the identity.
MulInverseIsInverse ==
    (IsCall("inverse", "mul") /\ MulGroup_include(field.mul_group, out.a)) =>
        /\ ~Raised(out.ret)
        /\ IsResidue(out.ret.value, Power(out.a.value, field.prime - 2), field.prime)
        /\ field.mul_group.identity.value = 1
        /\ Element_eq(MulGroup_operation(field.mul_group, out.a, out.ret),
                      field.mul_group.identity)
        /\ (Element_eq(out.a, field.mul_group.identity) =>
                Element_eq(out.ret, field.mul_group.identity))

\* inverse(5) in GF(7) returned 3.
MulInverseWitness ==
    /\ IsCall("inverse", "mul")
    /\ field.prime = 7 /\ out.a.prime = 7 /\ out.a.value = 5
    /\ ~Raised(out.ret) /\ out.ret.value = 3

\* C7: for every prime p and all members a, b of the additive group,
\* operation(a, b) == operation(b, a), operation(a, identity) == a and
\* operation(a, inverse(a)) == identity (value 0); inverse never fails, for
\* the zero element or any other.
AddGroupAxioms ==
    /\ IsCall("operation", "add")
          /\ AddGroup_include(field.add_group, out.a)
          /\ AddGroup_include(field.add_group, out.b)
        => /\ Element_eq(out.ret, AddGroup_operation(field.add_group, out.b, out.a))
           /\ Element_eq(AddGroup_operation(field.add_group, out.a, field.add_group.identity),
                         out.a)
           /\ (Element_eq(out.b, field.add_group.identity) => Element_eq(out.ret, out.a))
    /\ IsCall("inverse", "add")
        => /\ ~Raised(out.ret)
           /\ AddGroup_include(field.add_group, out.a)
                => /\ field.add_group.identity.value = 0
                   /\ Element_eq(AddGroup_operation(field.add_group, out.a, out.ret),
                                 field.add_group.identity)

\* The additive inverse of 3 in GF(7) returned 4.
AddGroupWitness ==
    /\ IsCall("inverse", "add")
    /\ field.prime = 7 /\ out.a.prime = 7 /\ out.a.value = 3
    /\ out.ret.value = 4

\* C9: each group is closed.  For members a, b of the multiplicative group
\* (include answers True), operation(a, b) and inverse(a) are members again,
\* never the zero residue; for members a, b of the additive group,
\* operation(a, b) and inverse(a) are members of the additive group.
GroupsClosed ==
    /\ IsCall("operation", "mul")
          /\ MulGroup_include(field.mul_group, out.a)
          /\ MulGroup_include(field.mul_group, out.b)
        => MulGroup_include(field.mul_group, out.ret) /\ out.ret.value # 0
    /\ IsCall("inverse", "mul") /\ MulGroup_include(field.mul_group, out.a)
        => /\ ~Raised(out.ret)
           /\ MulGroup_include(field.mul_group, out.ret) /\ out.ret.value # 0
    /\ IsCall("operation", "add")
          /\ AddGroup_include(field.add_group, out.a)
          /\ AddGroup_include(field.add_group, out.b)
        => AddGroup_include(field.add_group, out.ret)
    /\ IsCall("inverse", "add") /\ AddGroup_include(field.add_group, out.a)
        => AddGroup_include(field.add_group, out.ret)

\* 3 * 5 in GF(7) returned the member 1.
GroupsClosedWitness ==
    /\ IsCall("operation", "mul")
    /\ field.prime = 7
    /\ MulGroup_include(field.mul_group, out.a) /\ out.a.value = 3
    /\ MulGroup_include(field.mul_group, out.b) /\ out.b.value = 5
    /\ out.ret.value = 1

---------------------------------------------------------------------------
\* Properties of GFNumber (Spec)

IsOperator(op) == op \in {"add", "sub", "mul", "truediv"}
PrimeOf(n) == fields[heap[n].field].prime

\* C1: for every prime p, GFNumber(F, v1) / GFNumber(F, v2) fails with
\* ZeroDivisionError, raised by mul_group.inverse on the element built from
\* v2, and returns no element, whenever p divides v2 (v2 = 0, p, -p, 2p, ...),
\* for every v1; it never fails when p does not divide v2.
DivisionFailsExactlyOnZero ==
    (last.op = "truediv" /\ heap[last.self].field = heap[last.other].field) =>
        /\ last.raised <=> Divides(PrimeOf(last.other), heap[last.other].elem.raw)
        /\ last.raised =>
              /\ last.error = "ZeroDivisionError"
              /\ last.ret = ""
              /\ last.built = <<>>
        /\ ~last.raised => last.ret \in DOMAIN heap

\* A division by a GFNumber built from a nonzero multiple of p failed.
DivisionFailsWitness ==
    /\ last.op = "truediv" /\ last.raised
    /\ heap[last.self].field = heap[last.other].field
    /\ heap[last.other].elem.raw # 0
    /\ heap[last.self].elem.value # 0

\* The results m = q * y of a product whose left operand is the quotient
\* q = x / y by the same y, with x and y on the same field.
RoundTrips ==
    {m \in DOMAIN heap :
        /\ origin[m].op = "mul"
        /\ origin[origin[m].self].op = "truediv"
        /\ origin[origin[m].self].other = origin[m].other
        /\ heap[origin[origin[m].self].self].field = heap[origin[m].other].field}

\* C3: for every prime p, field F and integers v1, v2 with v2 mod p # 0,
\* (GFNumber(F, v1) / GFNumber(F, v2)) * GFNumber(F, v2) references the same
\* field F and its element has the value v1 mod p (and the prime p).
DivMulRoundTrip ==
    \A m \in RoundTrips :
        LET x == origin[origin[m].self].self IN
        /\ heap[m].field = heap[x].field
        /\ heap[m].elem.prime = PrimeOf(x)
        /\ IsResidue(heap[m].elem.value, heap[x].elem.raw, PrimeOf(x))

\* GFNumber(F, -1) / GFNumber(F, -2) * GFNumber(F, -2) in GF(7) gave 6.
DivMulRoundTripWitness ==
    \E m \in RoundTrips :
        LET x == origin[origin[m].self].self IN
        /\ x # origin[m].other
        /\ PrimeOf(x) = 7
        /\ heap[x].elem.raw = 0 - 1
        /\ heap[origin[m].other].elem.raw = 0 - 2
        /\ heap[origin[m].other].elem.value = 5
        /\ heap[m].elem.value = 6

\* The elements that exist: those of the GFNumbers and those the last call
\* built on the way (group results and inverses).
LiveElements ==
    {heap[n].elem : n \in DOMAIN heap} \cup
    (IF last.op = "none" THEN {} ELSE {last.built[k] : k \in DOMAIN last.built})

\* C6: every FiniteFieldElement that exists after any sequence of
\* constructions and operator calls (the factory, the groups' operation and
\* inverse, GFNumber +, -, *, /) has 0 <= value < prime and value congruent
\* to the raw integer it was built from, negative raw values included.
ElementsNormalized ==
    \A e \in LiveElements : IsResidue(e.value, e.raw, e.prime)

\* A subtraction built the additive inverse of 1 in GF(7) from the raw
\* value -1, as the element of value 6.
ElementsNormalizedWitness ==
    /\ last.op = "sub"
    /\ \E k \in DOMAIN last.built :
          /\ last.built[k].raw = 0 - 1
          /\ last.built[k].prime = 7
          /\ last.built[k].value = 6

\* A step that is a call of one of the four operators.
OperatorStep == IsOperator(last'.op) /\ vars' # vars

\* C8: the four GFNumber operators are pure.  A call leaves every existing
\* GFNumber (field and elem) and every FiniteField (prime, both groups'
\* prime and identity) unchanged; when it returns, the result is a newly
\* constructed GFNumber whose field is the left operand's field reference;
\* when / fails on a zero divisor, no object is created or changed.
OperatorsPure ==
    [][OperatorStep =>
        /\ fields' = fields
        /\ \A n \in DOMAIN heap : n \in DOMAIN heap' /\ heap'[n] = heap[n]
        /\ IF last'.raised
           THEN heap' = heap
           ELSE /\ last'.ret \notin DOMAIN heap
                /\ DOMAIN heap' = DOMAIN heap \cup {last'.ret}
                /\ heap'[last'.ret].field = heap[last'.self].field]_vars

\* A sum of a GFNumber on G and one on F was returned, on G.
OperatorsPureWitness ==
    /\ last.op = "add" /\ ~last.raised
    /\ heap[last.self].field = "G"
    /\ heap[last.other].field = "F"
    /\ heap[last.ret].field = "G"

---------------------------------------------------------------------------
\* Properties of check_distributivity (SpecCheck)

Asserted == trial # NoCall /\ "left" \in DOMAIN trial

\* C4: left-distributivity holds for every triple that can be sampled: for
\* every prime p, a in the multiplicative group (value 1..p-1) and b, c in
\* the additive group (value 0..p-1), a*(b+c) == a*b + a*c; for p = 7 the
\* triples are 6*7*7 = 294.
DistributivityHolds ==
    /\ Asserted =>
          /\ trial.a.value \in 1..(field.prime - 1)
          /\ trial.b.value \in 0..(field.prime - 1)
          /\ trial.c.value \in 0..(field.prime - 1)
          /\ Element_eq(
                MulGroup_operation(field.mul_group, trial.a,
                    AddGroup_operation(field.add_group, trial.b, trial.c)),
                AddGroup_operation(field.add_group,
                    MulGroup_operation(field.mul_group, trial.a, trial.b),
                    MulGroup_operation(field.mul_group, trial.a, trial.c)))
          /\ Element_eq(trial.left, trial.right)
          /\ IsResidue(trial.left.value,
                       trial.a.value * (trial.b.value + trial.c.value), field.prime)
    /\ field.prime = 7 =>
          Cardinality(Group_random_generate(MulGroup_get_all_elements(field.mul_group))
                \X Group_random_generate(AddGroup_get_all_elements(field.add_group))
                \X Group_random_generate(AddGroup_get_all_elements(field.add_group))) = 294

\* The triple a = 6, b = 6, c = 6 of GF(7) was sampled and compared:
\* 6 * 12 = 72 = 2 mod 7.
DistributivityWitness ==
    /\ Asserted /\ field.prime = 7
    /\ trial.a.value = 6 /\ trial.b.value = 6 /\ trial.c.value = 6
    /\ trial.left.value = 2 /\ trial.right.value = 2

\* C5: for a prime field and any trials >= 0 (default 50),
\* check_distributivity returns after exactly `trials` iterations whatever
\* random.choice returns: no assert fails, and each iteration draws a from
\* the p-1 elements of the multiplicative group and b, c from the p elements
\* of the additive group.
CheckTerminates ==
    /\ [](/\ pc # "AssertionError"
          /\ done <= trials
          /\ pc = "returned" => done = trials
          /\ Len(MulGroup_get_all_elements(field.mul_group)) = field.prime - 1
          /\ Len(AddGroup_get_all_elements(field.add_group)) = field.prime
          /\ Asserted =>
                /\ \E k \in 1..(field.prime - 1) :
                       MulGroup_get_all_elements(field.mul_group)[k] = trial.a
                /\ \E k \in 1..field.prime :
                       AddGroup_get_all_elements(field.add_group)[k] = trial.b
                /\ \E k \in 1..field.prime :
                       AddGroup_get_all_elements(field.add_group)[k] = trial.c)
    /\ (pc = "loop" ~> pc = "returned")

\* check_field returned after its 50 iterations.
CheckTerminatesWitness ==
    pc = "returned" /\ trials = DefaultTrials /\ done = DefaultTrials /\ Asserted

\* C10: in every iteration the precondition of Group.operation is met at
\* every call: both operands of each mul_group.operation call satisfy
\* mul_group.include, and both operands of each add_group.operation call
\* satisfy add_group.include.
OperationPreconditionsMet ==
    Asserted =>
        \A k \in DOMAIN trial.calls :
            IF trial.calls[k].group = "mul"
            THEN /\ MulGroup_include(field.mul_group, trial.calls[k].a)
                 /\ MulGroup_include(field.mul_group, trial.calls[k].b)
            ELSE /\ AddGroup_include(field.add_group, trial.calls[k].a)
                 /\ AddGroup_include(field.add_group, trial.calls[k].b)

====
